---- MODULE Spec2Model ----
(***************************************************************************)
(* A model of solsign (src/src/main.rs): the compact-u16 varint codec, the *)
(* transaction wire codec (decode / message / encode), the address table   *)
(* lookups, the signing engine (needed_signatures / sign), the key entry   *)
(* loop of main and its read-decode-challenge-sign-emit loop.              *)
(*                                                                         *)
(* Bytes are integers 0..255 and byte strings are sequences of bytes.  An  *)
(* Option is a sequence of length 0 (None) or 1 (Some).  A reader          *)
(* (&mut dyn Read over a byte slice) is a byte string together with the    *)
(* 1-based position of the next unread byte.                               *)
(***************************************************************************)
EXTENDS Integers, Sequences, FiniteSets, TLC

(***************************************************************************)
(* Program constants.                                                      *)
(***************************************************************************)
MAXIMUM_ED25519_SIGNATURES_COUNT == 18
MAXIMUM_ADDRESSES_COUNT == 37
MAXIMUM_INSTRUCTION_ADDRESS_INDEX_COUNT == 1190
MAXIMUM_INSTRUCTION_DATA_COUNT == 1192
ADDRESS_BYTES == 32
SIGNATURE_BYTES == 64
U8_MAX == 255
U16_MAX == 65535

None == << >>
Some(x) == << x >>
is_some(o) == Len(o) = 1

Range(seq) == {seq[i] : i \in 1..Len(seq)}

Zeros(n) == [i \in 1..n |-> 0]
EMPTY_RECENT_BLOCKHASH == Zeros(ADDRESS_BYTES)
EMPTY_SIGNATURE_BYTES == Zeros(SIGNATURE_BYTES)

(***************************************************************************)
(* Fixed-width integer arithmetic of the source: & and | on u16, << and    *)
(* >> on u16 (bits shifted out are dropped), `as u8` and `as u16`.         *)
(***************************************************************************)
RECURSIVE BitAnd(_, _)
BitAnd(x, y) ==
    IF x = 0 \/ y = 0 THEN 0
    ELSE (IF x % 2 = 1 /\ y % 2 = 1 THEN 1 ELSE 0) + 2 * BitAnd(x \div 2, y \div 2)

RECURSIVE BitOr(_, _)
BitOr(x, y) ==
    IF x = 0 THEN y
    ELSE IF y = 0 THEN x
    ELSE (IF x % 2 = 1 \/ y % 2 = 1 THEN 1 ELSE 0) + 2 * BitOr(x \div 2, y \div 2)

RECURSIVE Pow2(_)
Pow2(n) == IF n = 0 THEN 1 ELSE 2 * Pow2(n - 1)

Shl16(x, n) == (x * Pow2(n)) % (U16_MAX + 1)
Shr16(x, n) == x \div Pow2(n)
AsU8(x) == x % (U8_MAX + 1)
AsU16(x) == x % (U16_MAX + 1)
\* !0x80 and !0x00 on u16
NOT_0x80 == 65407
NOT_0x00 == 65535

(***************************************************************************)
(* Results.  Ok carries a value and the reader position after it;          *)
(* Incomplete is Err(None); Fatal is Err(Some(message)).                   *)
(***************************************************************************)
Ok(v, next) == [kind |-> "Ok", val |-> v, next |-> next]
Incomplete == [kind |-> "Incomplete"]
Fatal(msg) == [kind |-> "Fatal", msg |-> msg]

\* A mutant of read: a short read is reported as a fatal error.
read_fatal_on_eof(b, pos, n) ==
    IF pos + n - 1 <= Len(b)
    THEN Ok(SubSeq(b, pos, pos + n - 1), pos + n)
    ELSE Fatal(<<"failed to fill whole buffer">>)

\* Transaction::read: read_exact of n bytes; UnexpectedEof is Err(None).
read(b, pos, n) ==
    IF pos + n - 1 <= Len(b)
    THEN Ok(SubSeq(b, pos, pos + n - 1), pos + n)
    ELSE Incomplete

\* The ? operator: an Err is returned as it is, an Ok value is passed on.
Try(r, F(_)) == IF r.kind # "Ok" THEN r ELSE F(r)

\* A mutant of decode_compact_u16: a third byte too large for a u16 is an
\* error.
decode_compact_u16_strict(b, pos) ==
    Try(read(b, pos, 1), LAMBDA r0 :
        IF BitAnd(r0.val[1], 128) = 128 THEN
            Try(read(b, r0.next, 1), LAMBDA r1 :
                IF BitAnd(r1.val[1], 128) = 128 THEN
                    Try(read(b, r1.next, 1), LAMBDA r2 :
                        IF r2.val[1] > 3 THEN Fatal(<<"compact-u16 overflow">>) ELSE
                        Ok(BitOr(BitOr(Shl16(BitAnd(r0.val[1], NOT_0x80), 0),
                                       Shl16(BitAnd(r1.val[1], NOT_0x80), 7)),
                                 Shl16(BitAnd(r2.val[1], NOT_0x00), 14)), r2.next))
                ELSE Ok(BitOr(Shl16(BitAnd(r0.val[1], NOT_0x80), 0),
                              Shl16(BitAnd(r1.val[1], NOT_0x80), 7)), r1.next))
        ELSE Ok(r0.val[1], r0.next))

\* Transaction::decode_compact_u16
decode_compact_u16(b, pos) ==
    Try(read(b, pos, 1), LAMBDA r0 :
        IF BitAnd(r0.val[1], 128) = 128 THEN
            Try(read(b, r0.next, 1), LAMBDA r1 :
                IF BitAnd(r1.val[1], 128) = 128 THEN
                    Try(read(b, r1.next, 1), LAMBDA r2 :
                        Ok(BitOr(BitOr(Shl16(BitAnd(r0.val[1], NOT_0x80), 0),
                                       Shl16(BitAnd(r1.val[1], NOT_0x80), 7)),
                                 Shl16(BitAnd(r2.val[1], NOT_0x00), 14)), r2.next))
                ELSE Ok(BitOr(Shl16(BitAnd(r0.val[1], NOT_0x80), 0),
                              Shl16(BitAnd(r1.val[1], NOT_0x80), 7)), r1.next))
        ELSE Ok(r0.val[1], r0.next))

\* A mutant of encode_compact_u16: the two-byte form is chosen one value late.
encode_compact_u16_late(u) ==
    LET v0 == AsU8(BitAnd(u, 127)) IN
    IF u > 128 THEN
        LET u1 == Shr16(u, 7)
            v1 == AsU8(BitAnd(u1, 127)) IN
        IF u1 > 127
        THEN << BitOr(v0, 128), BitOr(v1, 128), AsU8(Shr16(u1, 7)) >>
        ELSE << BitOr(v0, 128), v1 >>
    ELSE << v0 >>

\* Transaction::encode_compact_u16: the bytes written for u.
encode_compact_u16(u) ==
    LET v0 == AsU8(BitAnd(u, 127)) IN
    IF u > 127 THEN
        LET u1 == Shr16(u, 7)
            v1 == AsU8(BitAnd(u1, 127)) IN
        IF u1 > 127
        THEN << BitOr(v0, 128), BitOr(v1, 128), AsU8(Shr16(u1, 7)) >>
        ELSE << BitOr(v0, 128), v1 >>
    ELSE << v0 >>

(***************************************************************************)
(* The transaction.  A signing slot is [pubkey, signature : Option]; an    *)
(* instruction address is <<address, is_signed, is_read_write>>.           *)
(***************************************************************************)
PubkeyWithSignature(pk, sig) == [pubkey |-> pk, signature |-> sig]

Transaction(srw, sro, urw, uro, bh, ins) ==
    [signed_read_write_addresses |-> srw,
     signed_read_only_addresses |-> sro,
     unsigned_read_write_addresses |-> urw,
     unsigned_read_only_addresses |-> uro,
     recent_blockhash |-> bh,
     instructions |-> ins]

Instruction(p, as, d) == [program_address |-> p, addresses |-> as, data |-> d]

\* The signing slots in wire order: signed-writable, then signed-read-only.
SigningSlots(tx) == tx.signed_read_write_addresses \o tx.signed_read_only_addresses

\* The address table in wire order.
AddressTable(tx) ==
    [i \in 1..Len(SigningSlots(tx)) |-> SigningSlots(tx)[i].pubkey]
        \o tx.unsigned_read_write_addresses \o tx.unsigned_read_only_addresses

\* iter().position(|x| x == a): the 0-based index of the first match, or None.
Position(seq, a) ==
    IF \E i \in 1..Len(seq) : seq[i] = a
    THEN Some((CHOOSE i \in 1..Len(seq) :
                  seq[i] = a /\ \A j \in 1..(i - 1) : seq[j] # a) - 1)
    ELSE None

Pubkeys(slots) == [i \in 1..Len(slots) |-> slots[i].pubkey]

\* A mutant of find_address_index: the unsigned-read-only partition is not
\* searched.
find_address_index_skip_read_only(tx, address) ==
    LET p1 == Position(Pubkeys(tx.signed_read_write_addresses), address)
        p2 == Position(Pubkeys(tx.signed_read_only_addresses), address)
        off2 == Len(tx.signed_read_write_addresses)
        p3 == Position(tx.unsigned_read_write_addresses, address)
        off3 == off2 + Len(tx.signed_read_only_addresses)
    IN  IF is_some(p1) THEN Some(AsU8(p1[1]))
        ELSE IF is_some(p2) THEN Some(AsU8(p2[1] + off2))
        ELSE IF is_some(p3) THEN Some(AsU8(p3[1] + off3))
        ELSE None

\* Transaction::find_address_index
find_address_index(tx, address) ==
    LET p1 == Position(Pubkeys(tx.signed_read_write_addresses), address)
        p2 == Position(Pubkeys(tx.signed_read_only_addresses), address)
        off2 == Len(tx.signed_read_write_addresses)
        p3 == Position(tx.unsigned_read_write_addresses, address)
        off3 == off2 + Len(tx.signed_read_only_addresses)
        p4 == Position(tx.unsigned_read_only_addresses, address)
        off4 == off3 + Len(tx.unsigned_read_write_addresses)
    IN  IF is_some(p1) THEN Some(AsU8(p1[1]))
        ELSE IF is_some(p2) THEN Some(AsU8(p2[1] + off2))
        ELSE IF is_some(p3) THEN Some(AsU8(p3[1] + off3))
        ELSE IF is_some(p4) THEN Some(AsU8(p4[1] + off4))
        ELSE None

\* A mutant of find_address_at_index: an address of the signed-read-only
\* partition is reported as writable.
find_address_at_index_ro_as_rw(tx, index) ==
    LET n1 == Len(tx.signed_read_write_addresses)
        n2 == Len(tx.signed_read_only_addresses)
        n3 == Len(tx.unsigned_read_write_addresses)
        n4 == Len(tx.unsigned_read_only_addresses)
        u1 == index
        u2 == u1 - n1
        u3 == u2 - n2
        u4 == u3 - n3
    IN  IF u1 < n1 THEN Some(<<tx.signed_read_write_addresses[u1 + 1].pubkey, TRUE, TRUE>>)
        ELSE IF u2 < n2 THEN Some(<<tx.signed_read_only_addresses[u2 + 1].pubkey, TRUE, TRUE>>)
        ELSE IF u3 < n3 THEN Some(<<tx.unsigned_read_write_addresses[u3 + 1], FALSE, TRUE>>)
        ELSE IF u4 < n4 THEN Some(<<tx.unsigned_read_only_addresses[u4 + 1], FALSE, FALSE>>)
        ELSE None

\* Transaction::find_address_at_index: Some(<<address, is_signed, read_write>>)
find_address_at_index(tx, index) ==
    LET n1 == Len(tx.signed_read_write_addresses)
        n2 == Len(tx.signed_read_only_addresses)
        n3 == Len(tx.unsigned_read_write_addresses)
        n4 == Len(tx.unsigned_read_only_addresses)
        u1 == index
        u2 == u1 - n1
        u3 == u2 - n2
        u4 == u3 - n3
    IN  IF u1 < n1 THEN Some(<<tx.signed_read_write_addresses[u1 + 1].pubkey, TRUE, TRUE>>)
        ELSE IF u2 < n2 THEN Some(<<tx.signed_read_only_addresses[u2 + 1].pubkey, TRUE, FALSE>>)
        ELSE IF u3 < n3 THEN Some(<<tx.unsigned_read_write_addresses[u3 + 1], FALSE, TRUE>>)
        ELSE IF u4 < n4 THEN Some(<<tx.unsigned_read_only_addresses[u4 + 1], FALSE, FALSE>>)
        ELSE None

(***************************************************************************)
(* Decoding.                                                               *)
(***************************************************************************)
\* ed25519::Signature::from_bytes (line 237): the three highest bits of the
\* last byte must be clear, otherwise an error.
signature_from_bytes_ok(buf) == BitAnd(buf[SIGNATURE_BYTES], 224) = 0

\* The loop of lines 231-239: signatures_count signature slots.
RECURSIVE decode_signatures(_, _, _, _)
decode_signatures(b, pos, count, acc) ==
    IF count = 0 THEN Ok(acc, pos) ELSE
    Try(read(b, pos, SIGNATURE_BYTES), LAMBDA r :
        IF r.val = EMPTY_SIGNATURE_BYTES
        THEN decode_signatures(b, r.next, count - 1, Append(acc, None))
        ELSE IF signature_from_bytes_ok(r.val)
        THEN decode_signatures(b, r.next, count - 1, Append(acc, Some(r.val)))
        ELSE Fatal(<<"signature error">>))

\* Transaction::decode_address
decode_address(b, pos) == read(b, pos, ADDRESS_BYTES)

\* Transaction::decode_recent_blockhash
decode_recent_blockhash(b, pos) ==
    Try(read(b, pos, ADDRESS_BYTES), LAMBDA r :
        IF r.val = EMPTY_RECENT_BLOCKHASH THEN Ok(None, r.next)
        ELSE Ok(Some(r.val), r.next))

\* A mutant of decode_signature_from_header: the iterator is not advanced.
decode_signature_from_header_no_advance(signatures, b, pos) ==
    Try(decode_address(b, pos), LAMBDA r :
        Ok(<<PubkeyWithSignature(r.val,
                IF Len(signatures) > 0 THEN Head(signatures) ELSE None),
             signatures>>,
           r.next))

\* Transaction::decode_signature_from_header: the slot takes the next
\* signature of the iterator, or None when the iterator is exhausted.  The
\* value is <<slot, rest of the iterator>>.
decode_signature_from_header(signatures, b, pos) ==
    Try(decode_address(b, pos), LAMBDA r :
        Ok(<<PubkeyWithSignature(r.val,
                IF Len(signatures) > 0 THEN Head(signatures) ELSE None),
             IF Len(signatures) > 0 THEN Tail(signatures) ELSE signatures>>,
           r.next))

\* The loops of lines 303-309.  The value is <<slots, rest of the iterator>>.
RECURSIVE decode_slots(_, _, _, _, _)
decode_slots(b, pos, count, signatures, acc) ==
    IF count = 0 THEN Ok(<<acc, signatures>>, pos) ELSE
    Try(decode_signature_from_header(signatures, b, pos), LAMBDA r :
        decode_slots(b, r.next, count - 1, r.val[2], Append(acc, r.val[1])))

\* The loops of lines 311-317.
RECURSIVE decode_addresses(_, _, _, _)
decode_addresses(b, pos, count, acc) ==
    IF count = 0 THEN Ok(acc, pos) ELSE
    Try(decode_address(b, pos), LAMBDA r :
        decode_addresses(b, r.next, count - 1, Append(acc, r.val)))

\* The loop of lines 342-348: the address indices of instruction i.
RECURSIVE decode_instruction_addresses(_, _, _, _, _, _)
decode_instruction_addresses(b, pos, count, ret, i, acc) ==
    IF count = 0 THEN Ok(acc, pos) ELSE
    Try(read(b, pos, 1), LAMBDA r :
        IF ~is_some(find_address_at_index(ret, r.val[1]))
        THEN Fatal(<<"Invalid address index referenced from instruction", r.val[1], i>>)
        ELSE decode_instruction_addresses(b, r.next, count - 1, ret, i,
                 Append(acc, find_address_at_index(ret, r.val[1])[1])))

\* The loop of lines 323-364: instruction i of instruction_count.
RECURSIVE decode_instructions(_, _, _, _, _)
decode_instructions(b, pos, i, instruction_count, ret) ==
    IF i >= instruction_count THEN Ok(ret, pos) ELSE
    Try(read(b, pos, 1), LAMBDA r0 :
    IF ~is_some(find_address_at_index(ret, r0.val[1]))
    THEN Fatal(<<"Invalid program id index for instruction", r0.val[1], i>>) ELSE
    Try(decode_compact_u16(b, r0.next), LAMBDA addresses_count :
    IF addresses_count.val > MAXIMUM_INSTRUCTION_ADDRESS_INDEX_COUNT
    THEN Fatal(<<"Too many addresses in instruction", i,
                 MAXIMUM_INSTRUCTION_ADDRESS_INDEX_COUNT, addresses_count.val>>) ELSE
    Try(decode_instruction_addresses(
            b, addresses_count.next, addresses_count.val, ret, i, << >>), LAMBDA addresses :
    Try(decode_compact_u16(b, addresses.next), LAMBDA data_count :
    IF data_count.val > MAXIMUM_INSTRUCTION_DATA_COUNT
    THEN Fatal(<<"Too many data bytes in instruction", i,
                 MAXIMUM_INSTRUCTION_DATA_COUNT, data_count.val>>) ELSE
    Try(read(b, data_count.next, data_count.val), LAMBDA data :
    decode_instructions(b, data.next, i + 1, instruction_count,
        [ret EXCEPT !.instructions =
            Append(@, Instruction(find_address_at_index(ret, r0.val[1])[1][1],
                                  addresses.val, data.val))]))))))

\* The counts of a header: <<signatures, signed read-write, signed read-only,
\* unsigned read-write, unsigned read-only>>.
Counts(signatures, buf, actual_address_count) ==
    <<signatures, buf[1] - buf[2], buf[2], actual_address_count - (buf[1] + buf[3]), buf[3]>>

\* A mutant of decode_header: the check of the signature count against the
\* total signed address count (lines 255-260) is missing.
decode_header_no_count_check(b) ==
    Try(decode_compact_u16(b, 1), LAMBDA signatures_count :
    IF signatures_count.val > MAXIMUM_ED25519_SIGNATURES_COUNT
    THEN Fatal(<<"Too many signatures in transaction",
                 MAXIMUM_ED25519_SIGNATURES_COUNT, signatures_count.val>>) ELSE
    Try(decode_signatures(b, signatures_count.next, signatures_count.val, << >>),
        LAMBDA signatures :
    Try(read(b, signatures.next, 3), LAMBDA buf :
    IF buf.val[1] > MAXIMUM_ADDRESSES_COUNT
    THEN Fatal(<<"Too many signatures supplied", buf.val[1], MAXIMUM_ADDRESSES_COUNT>>) ELSE
    IF buf.val[2] > buf.val[1]
    THEN Fatal(<<"Too many signed read only addresses", buf.val[1], buf.val[2]>>) ELSE
    IF buf.val[1] - buf.val[2] = 0
    THEN Fatal(<<"Minimum signed address count of 1 required for fee payer">>) ELSE
    Try(decode_compact_u16(b, buf.next), LAMBDA actual_address_count :
    IF actual_address_count.val < buf.val[1] + buf.val[3]
    THEN Fatal(<<"Too few addresses in header",
                 actual_address_count.val, buf.val[1] + buf.val[3]>>) ELSE
    Ok(Counts(signatures.val, buf.val, actual_address_count.val),
       actual_address_count.next)))))

\* Transaction::decode, lines 217-290: the signature count, the signatures,
\* the three header bytes (total_signed_address_count, signed_read_only_
\* address_count, unsigned_read_only_address_count) and the address count,
\* with their checks.
decode_header(b) ==
    Try(decode_compact_u16(b, 1), LAMBDA signatures_count :
    IF signatures_count.val > MAXIMUM_ED25519_SIGNATURES_COUNT
    THEN Fatal(<<"Too many signatures in transaction",
                 MAXIMUM_ED25519_SIGNATURES_COUNT, signatures_count.val>>) ELSE
    Try(decode_signatures(b, signatures_count.next, signatures_count.val, << >>),
        LAMBDA signatures :
    Try(read(b, signatures.next, 3), LAMBDA buf :
    IF buf.val[1] > MAXIMUM_ADDRESSES_COUNT
    THEN Fatal(<<"Too many signatures supplied", buf.val[1], MAXIMUM_ADDRESSES_COUNT>>) ELSE
    IF signatures_count.val > buf.val[1]
    THEN Fatal(<<"Too many signatures supplied", buf.val[1], signatures_count.val>>) ELSE
    IF buf.val[2] > buf.val[1]
    THEN Fatal(<<"Too many signed read only addresses", buf.val[1], buf.val[2]>>) ELSE
    IF buf.val[1] - buf.val[2] = 0
    THEN Fatal(<<"Minimum signed address count of 1 required for fee payer">>) ELSE
    Try(decode_compact_u16(b, buf.next), LAMBDA actual_address_count :
    IF actual_address_count.val < buf.val[1] + buf.val[3]
    THEN Fatal(<<"Too few addresses in header",
                 actual_address_count.val, buf.val[1] + buf.val[3]>>) ELSE
    Ok(Counts(signatures.val, buf.val, actual_address_count.val),
       actual_address_count.next)))))

\* A mutant of decode: bytes left in the reader after the transaction are
\* an error.
decode_rejects_trailing(b) ==
    Try(decode_header(b), LAMBDA h :
    Try(decode_slots(b, h.next, h.val[2], h.val[1], << >>), LAMBDA srw :
    Try(decode_slots(b, srw.next, h.val[3], srw.val[2], << >>), LAMBDA sro :
    Try(decode_addresses(b, sro.next, h.val[4], << >>), LAMBDA urw :
    Try(decode_addresses(b, urw.next, h.val[5], << >>), LAMBDA uro :
    Try(decode_recent_blockhash(b, uro.next), LAMBDA recent_blockhash :
    Try(decode_compact_u16(b, recent_blockhash.next), LAMBDA instruction_count :
    Try(decode_instructions(b, instruction_count.next, 0, instruction_count.val,
            Transaction(srw.val[1], sro.val[1], urw.val, uro.val,
                        recent_blockhash.val, << >>)), LAMBDA ret :
    IF ret.next <= Len(b) THEN Fatal(<<"Trailing bytes">>) ELSE ret))))))))

\* Transaction::decode: Ok(tx, position after the last byte consumed),
\* Incomplete or Fatal(message).  After the header (lines 217-290) come the
\* four partitions, the blockhash and the instructions (lines 292-366).
decode(b) ==
    Try(decode_header(b), LAMBDA h :
    Try(decode_slots(b, h.next, h.val[2], h.val[1], << >>), LAMBDA srw :
    Try(decode_slots(b, srw.next, h.val[3], srw.val[2], << >>), LAMBDA sro :
    Try(decode_addresses(b, sro.next, h.val[4], << >>), LAMBDA urw :
    Try(decode_addresses(b, urw.next, h.val[5], << >>), LAMBDA uro :
    Try(decode_recent_blockhash(b, uro.next), LAMBDA recent_blockhash :
    Try(decode_compact_u16(b, recent_blockhash.next), LAMBDA instruction_count :
    decode_instructions(b, instruction_count.next, 0, instruction_count.val,
        Transaction(srw.val[1], sro.val[1], urw.val, uro.val,
                    recent_blockhash.val, << >>)))))))))

(***************************************************************************)
(* Encoding.  A writer into a Vec never fails, so message and encode are   *)
(* either [kind |-> "Ok", val |-> bytes] or [kind |-> "Err", msg |-> ...]. *)
(***************************************************************************)
WOk(bytes) == [kind |-> "Ok", val |-> bytes]
WErr(msg) == [kind |-> "Err", msg |-> msg]

RECURSIVE Flatten(_)
Flatten(seqs) == IF seqs = << >> THEN << >> ELSE Head(seqs) \o Flatten(Tail(seqs))

\* The loop of lines 430-439: the resolved indices of an instruction's addresses.
RECURSIVE message_instruction_addresses(_, _, _)
message_instruction_addresses(tx, addresses, acc) ==
    IF addresses = << >> THEN WOk(acc) ELSE
    LET ix == find_address_index(tx, Head(addresses)[1]) IN
    IF ~is_some(ix)
    THEN WErr(<<"Invalid Transaction - address is not in address list", Head(addresses)[1]>>)
    ELSE message_instruction_addresses(tx, Tail(addresses), Append(acc, ix[1]))

\* The loop of lines 418-451.
RECURSIVE message_instructions(_, _, _)
message_instructions(tx, instructions, acc) ==
    IF instructions = << >> THEN WOk(acc) ELSE
    LET instruction == Head(instructions)
        pix == find_address_index(tx, instruction.program_address) IN
    IF ~is_some(pix)
    THEN WErr(<<"Invalid Transaction - program address not in address list",
                instruction.program_address>>) ELSE
    LET ixs == message_instruction_addresses(tx, instruction.addresses, << >>) IN
    IF ixs.kind # "Ok" THEN ixs ELSE
    LET data_len == Len(instruction.data) IN
    IF data_len > MAXIMUM_INSTRUCTION_DATA_COUNT
    THEN WErr(<<"Instruction data len too long", data_len, MAXIMUM_INSTRUCTION_DATA_COUNT>>)
    ELSE message_instructions(tx, Tail(instructions),
            acc \o << pix[1] >>
                \o encode_compact_u16(AsU16(Len(instruction.addresses))) \o ixs.val
                \o encode_compact_u16(AsU16(data_len)) \o instruction.data)

\* A mutant of message: the header's first byte counts the slots that hold a
\* signature instead of all signing slots.
message_counts_signed(tx) ==
    LET nsigned == Cardinality({i \in 1..Len(SigningSlots(tx)) :
                                   is_some(SigningSlots(tx)[i].signature)})
        nro == Len(tx.signed_read_only_addresses)
        recent_blockhash == IF is_some(tx.recent_blockhash)
                            THEN tx.recent_blockhash[1] ELSE EMPTY_RECENT_BLOCKHASH
        ins == message_instructions(tx, tx.instructions, << >>)
    IN  IF ins.kind # "Ok" THEN ins
        ELSE WOk(<< nsigned, nro, AsU8(Len(tx.unsigned_read_only_addresses)) >>
                 \o encode_compact_u16(AsU16(Len(AddressTable(tx))))
                 \o Flatten(AddressTable(tx))
                 \o recent_blockhash
                 \o encode_compact_u16(AsU16(Len(tx.instructions)))
                 \o ins.val)

\* Transaction::message
message(tx) ==
    LET nsigned == Len(tx.signed_read_write_addresses) + Len(tx.signed_read_only_addresses)
        nro == Len(tx.signed_read_only_addresses) IN
    IF nsigned > U8_MAX THEN WErr(<<"Too many signed addresses">>) ELSE
    IF nro > U8_MAX THEN WErr(<<"Too many read only addresses">>) ELSE
    LET recent_blockhash == IF is_some(tx.recent_blockhash)
                            THEN tx.recent_blockhash[1] ELSE EMPTY_RECENT_BLOCKHASH IN
    IF Len(tx.instructions) > U16_MAX THEN WErr(<<"Too many instructions">>) ELSE
    LET ins == message_instructions(tx, tx.instructions, << >>) IN
    IF ins.kind # "Ok" THEN ins
    ELSE WOk(<< nsigned, nro, AsU8(Len(tx.unsigned_read_only_addresses)) >>
             \o encode_compact_u16(AsU16(Len(AddressTable(tx))))
             \o Flatten(AddressTable(tx))
             \o recent_blockhash
             \o encode_compact_u16(AsU16(Len(tx.instructions)))
             \o ins.val)

\* Transaction::encode_signature
encode_signature(signature) ==
    IF is_some(signature) THEN signature[1] ELSE EMPTY_SIGNATURE_BYTES

\* Transaction::encode
encode(tx) ==
    LET total_signatures ==
            Len(tx.signed_read_write_addresses) + Len(tx.signed_read_only_addresses) IN
    IF total_signatures > U16_MAX THEN WErr(<<"Too many addresses">>) ELSE
    LET m == message(tx) IN
    IF m.kind # "Ok" THEN m
    ELSE WOk(encode_compact_u16(AsU16(total_signatures))
             \o Flatten([i \in 1..total_signatures |->
                            encode_signature(SigningSlots(tx)[i].signature)])
             \o m.val)

(***************************************************************************)
(* Base58 text of a public key (impl Display for Pubkey, bs58::encode).    *)
(* A string is the sequence of its characters' indices in the alphabet     *)
(* 123456789ABCDEFGHJKLMNPQRSTUVWXYZabcdefghijkmnopqrstuvwxyz, whose       *)
(* characters are in ascending ASCII order, so that the order of strings   *)
(* is the lexicographic order of these sequences.                          *)
(***************************************************************************)
RECURSIVE StripZeros(_)
StripZeros(ds) == IF ds # << >> /\ Head(ds) = 0 THEN StripZeros(Tail(ds)) ELSE ds

LeadingZeros(ds) == Len(ds) - Len(StripZeros(ds))

\* Long division of a big-endian base-256 number by 58: <<quotient, remainder>>.
RECURSIVE DivMod58(_, _, _)
DivMod58(ds, q, rem) ==
    IF ds = << >> THEN <<q, rem>>
    ELSE LET cur == rem * 256 + Head(ds)
         IN  DivMod58(Tail(ds), Append(q, cur \div 58), cur % 58)

RECURSIVE Base58Digits(_)
Base58Digits(ds) ==
    LET n == StripZeros(ds) IN
    IF n = << >> THEN << >>
    ELSE LET qr == DivMod58(n, << >>, 0)
         IN  Append(Base58Digits(qr[1]), qr[2])

\* bs58::encode(bytes).into_string(): one '1' (index 0) per leading zero
\* byte, then the number in base 58.
Base58(bytes) == Zeros(LeadingZeros(bytes)) \o Base58Digits(bytes)

\* Ord for String: lexicographic, a proper prefix is less.
RECURSIVE StrLess(_, _)
StrLess(a, b) ==
    IF b = << >> THEN FALSE
    ELSE IF a = << >> THEN TRUE
    ELSE IF Head(a) # Head(b) THEN Head(a) < Head(b)
    ELSE StrLess(Tail(a), Tail(b))

(***************************************************************************)
(* The signing engine.                                                     *)
(***************************************************************************)
\* Insertion of <<key, value>> after every element whose key is not greater:
\* a stable sort by key, as slice::sort_by_key.
RECURSIVE InsertByKey(_, _)
InsertByKey(sorted, kv) ==
    IF sorted = << >> THEN << kv >>
    ELSE IF StrLess(kv[1], Head(sorted)[1]) THEN << kv >> \o sorted
    ELSE << Head(sorted) >> \o InsertByKey(Tail(sorted), kv)

RECURSIVE SortByKey(_, _)
SortByKey(kvs, acc) ==
    IF kvs = << >> THEN acc ELSE SortByKey(Tail(kvs), InsertByKey(acc, Head(kvs)))

\* Vec::dedup: consecutive equal elements are reduced to the first.
RECURSIVE Dedup(_)
Dedup(v) ==
    IF Len(v) < 2 THEN v
    ELSE IF v[1] = v[2] THEN Dedup(Tail(v))
    ELSE << Head(v) >> \o Dedup(Tail(v))

SelectUnsigned(slots) ==
    Pubkeys(SelectSeq(slots, LAMBDA a : ~is_some(a.signature)))

\* A mutant of needed_signatures: the signed-read-only partition is left out.
needed_signatures_rw_only(tx) ==
    LET v == SelectUnsigned(tx.signed_read_write_addresses)
        keyed == [i \in 1..Len(v) |-> <<Base58(v[i]), v[i]>>]
        sorted == SortByKey(keyed, << >>)
    IN  Dedup([i \in 1..Len(sorted) |-> sorted[i][2]])

\* A mutant of needed_signatures: the keys are not sorted.
needed_signatures_unsorted(tx) ==
    Dedup(SelectUnsigned(tx.signed_read_write_addresses)
              \o SelectUnsigned(tx.signed_read_only_addresses))

\* Transaction::needed_signatures: the public keys still to sign, as a sequence.
needed_signatures(tx) ==
    LET v == SelectUnsigned(tx.signed_read_write_addresses)
                \o SelectUnsigned(tx.signed_read_only_addresses)
        keyed == [i \in 1..Len(v) |-> <<Base58(v[i]), v[i]>>]
        sorted == SortByKey(keyed, << >>)
    IN  Dedup([i \in 1..Len(sorted) |-> sorted[i][2]])

SignSlots(slots, pubkey, signature) ==
    [i \in 1..Len(slots) |->
        IF slots[i].pubkey = pubkey
        THEN [slots[i] EXCEPT !.signature = Some(signature)]
        ELSE slots[i]]

\* A mutant of sign: only the first matching slot of the signed-writable
\* partition is signed.
sign_first_only(tx, pubkey, signature) ==
    LET p == Position(Pubkeys(tx.signed_read_write_addresses), pubkey) IN
    IF is_some(p)
    THEN [tx EXCEPT !.signed_read_write_addresses[p[1] + 1].signature = Some(signature)]
    ELSE tx

\* A mutant of sign: a slot that already holds a signature keeps it.
sign_keep_existing(tx, pubkey, signature) ==
    LET keep(slots) ==
            [i \in 1..Len(slots) |->
                IF slots[i].pubkey = pubkey /\ ~is_some(slots[i].signature)
                THEN [slots[i] EXCEPT !.signature = Some(signature)]
                ELSE slots[i]]
    IN  [tx EXCEPT !.signed_read_write_addresses = keep(@),
                   !.signed_read_only_addresses = keep(@)]

\* A mutant of sign: the loop over the signed-read-only partition is missing.
sign_read_write_only(tx, pubkey, signature) ==
    [tx EXCEPT !.signed_read_write_addresses = SignSlots(@, pubkey, signature)]

\* Transaction::sign (always Ok): the transaction afterwards.
sign(tx, pubkey, signature) ==
    [tx EXCEPT !.signed_read_write_addresses = SignSlots(@, pubkey, signature),
               !.signed_read_only_addresses = SignSlots(@, pubkey, signature)]

\* ed25519_dalek::Keypair::sign of the keypair whose public key is pubkey
\* (line 985).  The library is abstracted to a deterministic function of the
\* key and of a digest of the message; its value is never all-zero and is
\* accepted by signature_from_bytes_ok.
RECURSIVE Digest(_, _, _)
Digest(m, lo, hi) ==
    IF lo > hi THEN 7
    ELSE IF lo = hi THEN (lo * (m[lo] + 1)) % 251
    ELSE LET mid == (lo + hi) \div 2
         IN  (Digest(m, lo, mid) + Digest(m, mid + 1, hi)) % 251

keypair_sign(pubkey, m) ==
    LET d == Digest(m, 1, Len(m)) IN
    [i \in 1..SIGNATURE_BYTES |->
        IF i <= ADDRESS_BYTES THEN (pubkey[i] + d) % 256
        ELSE IF i < SIGNATURE_BYTES THEN (d + i) % 256
        ELSE 1 + (d % 31)]

(***************************************************************************)
(* Inputs: byte strings in the wire format, assembled field by field so    *)
(* that non-shortest varints, short signature lists, repeated addresses    *)
(* and rejected headers are among them.                                    *)
(***************************************************************************)
\* Signatures carried by an input: at most MaxSigPat.
MaxSigPat == 2
\* Data bytes of an input's instruction: 0 or MaxData.
MaxData == 2
\* Sign cycles a transaction goes through (one hand-off between two parties).
MaxRounds == 2
\* Calls of needed_signatures in a row on one transaction.
MaxCalls == 2

\* The k-th address of the pool (the first one starts with a zero byte).
Key(k) == [i \in 1..ADDRESS_BYTES |-> IF i = 1 THEN k - 1 ELSE k]

\* A well-formed signature that no key of the pool produced.
GarbageSig == [i \in 1..SIGNATURE_BYTES |-> IF i = SIGNATURE_BYTES THEN 5 ELSE 170]
\* A signature that from_bytes rejects.
BadSig == [i \in 1..SIGNATURE_BYTES |-> 255]

Fill(n, v) == [i \in 1..n |-> v]
Blockhash(v) == Fill(ADDRESS_BYTES, v)

\* Signature bytes of kind p for the slot of address a over message bytes body.
SigOfKind(p, a, body) ==
    CASE p = "Z" -> EMPTY_SIGNATURE_BYTES
      [] p = "G" -> GarbageSig
      [] p = "X" -> BadSig
      [] OTHER -> keypair_sign(a, body)

InsBytes(prog, idxs, data) ==
    << prog >> \o encode_compact_u16(Len(idxs)) \o idxs
               \o encode_compact_u16(Len(data)) \o data

\* The message part: header, address count varint nav, addresses, blockhash,
\* instruction count varint niv, instruction bytes.
Body(hdr, nav, addrs, bh, niv, ins) ==
    hdr \o nav \o Flatten(addrs) \o bh \o niv \o ins

\* The whole wire: signature count varint nsigv, signatures of kinds sp, body.
Wire(nsigv, sp, addrs, body) ==
    nsigv \o Flatten([j \in 1..Len(sp) |->
                         SigOfKind(sp[j], IF j <= Len(addrs) THEN addrs[j] ELSE Key(1), body)])
          \o body

\* An input with shortest varints: ts signed addresses of which ro read-only,
\* urw and uro unsigned ones, addresses Key(ks[i]), signature kinds sp.
Canon(ts, ro, urw, uro, ks, sp, bh, nins, ins) ==
    LET addrs == [i \in 1..(ts + urw + uro) |-> Key(ks[i])]
        body == Body(<<ts, ro, uro>>, encode_compact_u16(ts + urw + uro), addrs,
                     Blockhash(bh), encode_compact_u16(nins), ins)
    IN  Wire(encode_compact_u16(Len(sp)), sp, addrs, body)

ShapeInputs ==
    LET P == {p \in (1..2) \X (0..1) \X (0..1) \X (0..1) \X {0, 9} : p[2] < p[1]}
    IN  {Canon(p[1], p[2], p[3], p[4], <<1, 2, 3, 4>>, << >>, p[5], 0, << >>) : p \in P}

SigPats == UNION {[1..n -> {"Z", "G", "V"}] : n \in 0..MaxSigPat}

SigInputs ==
    {Canon(2, 1, 0, 0, ks, sp, 9, 0, << >>) : ks \in {<<1, 2>>, <<1, 1>>}, sp \in SigPats}
        \cup {Canon(2, 0, 0, 0, <<2, 2>>, sp, 0, 0, << >>) : sp \in {<<"G">>, <<"Z", "G">>}}
        \cup {Canon(2, 1, 0, 0, <<1, 2>>, <<"G", "X">>, 9, 0, << >>)}

DataOf(n) == [i \in 1..n |-> 7 + i]

InsInputs ==
    {Canon(1, 0, 1, 1, ks, << >>, 9, 1, InsBytes(prog, idxs, DataOf(n))) :
        ks \in {<<1, 2, 3>>, <<1, 2, 2>>}, prog \in 1..3,
        idxs \in {<< >>, <<0>>, <<2, 0>>, <<1, 5>>}, n \in {0, MaxData}}

\* Two instructions; the second one's program index is 0 or out of range.
TwoInsInputs ==
    {Canon(2, 1, 0, 1, <<1, 2, 1>>, <<"Z", "G">>, 9, 2,
           InsBytes(2, <<0, 1>>, << >>) \o InsBytes(prog2, <<1>>, <<3>>)) : prog2 \in {0, 7}}

NonCanonInputs ==
    {Wire(nsigv, << >>, << >>, Body(<<1, 0, 0>>, nav, <<Key(1)>>, Blockhash(9), niv, << >>)) :
        nsigv \in {<<0>>, <<128, 0>>},
        nav \in {<<1>>, <<129, 0>>, <<129, 128, 0>>, <<129, 128, 4>>},
        niv \in {<<0>>, <<128, 0>>, <<128, 128, 8>>}}

\* Headers <<signature count, total signed, signed read-only, unsigned
\* read-only, address count>>, followed by one address, a blockhash and no
\* instructions.
Headers ==
    {<<0, 38, 0, 0, 38>>, <<1, 0, 0, 0, 0>>, <<2, 1, 0, 0, 1>>, <<0, 1, 2, 0, 1>>,
     <<0, 2, 2, 0, 2>>, <<0, 1, 0, 3, 3>>, <<0, 1, 0, 0, 1>>, <<19, 19, 0, 0, 19>>,
     <<1, 1, 0, 0, 1>>}

HeaderInputs ==
    {<<h[1]>> \o Flatten([j \in 1..(IF h[1] > 2 THEN 0 ELSE h[1]) |-> GarbageSig])
        \o <<h[2], h[3], h[4], h[5]>> \o Key(1) \o Blockhash(9) \o <<0>> : h \in Headers}

\* One more signed address than signatures are allowed.
BigInputs ==
    {Canon(MAXIMUM_ED25519_SIGNATURES_COUNT + 1, 0, 0, 0,
           [i \in 1..(MAXIMUM_ED25519_SIGNATURES_COUNT + 1) |-> i], << >>, 9, 0, << >>)}

\* All four partitions hold an address and the first instruction refers to
\* each of them; the second instruction's indices are in range or not.
ResolveInputs ==
    {Canon(2, 1, 1, 1, <<1, 2, 3, 4>>, << >>, 9, 2,
           InsBytes(3, <<0, 1, 2, 3>>, << >>) \o InsBytes(prog2, idxs2, <<5>>)) :
        prog2 \in {0, 4}, idxs2 \in {<<3, 2>>, <<1, 4>>, <<1, 255, 9>>}}

\* An instruction with as many data bytes as are allowed, and with one more.
LongDataInputs ==
    {Canon(1, 0, 1, 1, <<1, 2, 3>>, << >>, 9, 1, InsBytes(2, <<0, 1>>, Fill(n, 6))) :
        n \in {MAXIMUM_INSTRUCTION_DATA_COUNT, MAXIMUM_INSTRUCTION_DATA_COUNT + 1}}

\* Signing slots whose keys are not in the order of their texts, one key in
\* two slots.
OrderInputs ==
    {Canon(3, 1, 0, 0, <<2, 1, 2>>, sp, 9, 0, << >>) :
        sp \in {<< >>, <<"G">>, <<"Z", "Z", "G">>}}

\* One signed address and as many unsigned writable ones as addresses are
\* allowed: one address more than the limit in all.
ManyAddressInputs ==
    {Canon(1, 0, MAXIMUM_ADDRESSES_COUNT, 0,
           [i \in 1..(MAXIMUM_ADDRESSES_COUNT + 1) |-> i], << >>, 9, 0, << >>)}

CodecInputs ==
    ShapeInputs \cup SigInputs \cup InsInputs \cup TwoInsInputs \cup NonCanonInputs
        \cup HeaderInputs \cup BigInputs \cup ManyAddressInputs \cup ResolveInputs
        \cup LongDataInputs \cup OrderInputs

(***************************************************************************)
(* State.                                                                  *)
(*   main's loop (lines 912-1045): input is the transaction being typed,   *)
(*   got the number of its bytes accumulated in the buffer, keys the       *)
(*   keyring of the running program (the base58 texts of its public keys), *)
(*   others the keyring of the program the output is handed to, round the  *)
(*   number of the sign cycle, tx_in the transaction as decoded, msg its   *)
(*   message bytes, decoded_tx the transaction after the sign pass, report *)
(*   what was printed, first_tx the transaction as the first party decoded *)
(*   it, pc the program's position, password the challenge password set   *)
(*   at start-up, attempts the challenge loop's counter, password_attempt  *)
(*   what was last typed at the challenge prompt, prompts the number of    *)
(*   challenge prompts answered for the transaction.                       *)
(*   codec: cb an input, cn the length of the prefix decoded, cres the     *)
(*   result of decode, ctx the transaction (after sign calls), cenc the    *)
(*   result of encode, cre the result of decoding cenc again, cneed the    *)
(*   results of the calls of needed_signatures on ctx, csign the arguments *)
(*   of the last sign call and the transaction before it, cext further     *)
(*   bytes for the reader and the result of decode with them appended.     *)
(*   varint: vu a u16, vbytes its encoding, vval the decoding of vbytes,   *)
(*   vraw three bytes for the reader, vrawval what they decode to.         *)
(*   key entry (lines 776-893): keypairs the candidate keypairs offered    *)
(*   for the mnemonic just entered, as <<derivation path, public key>>,    *)
(*   keys_in_order the texts of the public keys provided so far (the keys  *)
(*   of the map keys, which gets an entry exactly when keys_in_order       *)
(*   does), mnemonics the number of mnemonics entered, kpc the position in *)
(*   the key entry loop.                                                   *)
(***************************************************************************)
VARIABLES input, got, keys, others, round, tx_in, msg, decoded_tx, report, first_tx, pc,
          password, attempts, password_attempt, prompts,
          cb, cn, cres, ctx, cenc, cre, cstage, cneed, csign, cext,
          vu, vbytes, vval, vraw, vrawval,
          keypairs, keys_in_order, mnemonics, kpc

challenge_vars == <<password, attempts, password_attempt, prompts>>
main_vars ==
    <<input, got, keys, others, round, tx_in, msg, decoded_tx, report, first_tx, pc,
      challenge_vars>>
codec_vars == <<cb, cn, cres, ctx, cenc, cre, cstage, cneed, csign, cext>>
varint_vars == <<vu, vbytes, vval, vraw, vrawval>>
entry_vars == <<keypairs, keys_in_order, mnemonics, kpc>>
vars == <<main_vars, codec_vars, varint_vars, entry_vars>>

MainIdle ==
    /\ input = << >> /\ got = 0 /\ keys = {} /\ others = {} /\ round = 0
    /\ tx_in = None /\ msg = None /\ decoded_tx = None /\ report = None
    /\ first_tx = None /\ pc = "idle"
    /\ password = "" /\ attempts = 0 /\ password_attempt = None /\ prompts = 0

CodecIdle ==
    /\ cb = << >> /\ cn = 0 /\ cres = None /\ ctx = None /\ cenc = None /\ cre = None
    /\ cstage = "idle" /\ cneed = << >> /\ csign = None /\ cext = None

VarintIdle == vu = 0 /\ vbytes = None /\ vval = None /\ vraw = None /\ vrawval = None

EntryIdle == keypairs = << >> /\ keys_in_order = << >> /\ mnemonics = 0 /\ kpc = "idle"

(***************************************************************************)
(* The varint codec applied to every u16.                                  *)
(***************************************************************************)
\* Three bytes whose first two have the high bit set: some first and second
\* bytes, every third byte.
ContinuationBytes == {128, 129, 170, 213, 255}
RawVarints == {<<b0, b1, b2>> : b0 \in ContinuationBytes, b1 \in ContinuationBytes,
                               b2 \in 0..U8_MAX}

\* Either a u16 to encode, or three bytes to decode.
VarintInit ==
    /\ \/ vu \in 0..U16_MAX /\ vraw = None
       \/ vu = 0 /\ vraw \in {Some(raw) : raw \in RawVarints}
    /\ vbytes = None /\ vval = None /\ vrawval = None
    /\ MainIdle /\ CodecIdle /\ EntryIdle

VEncode ==
    /\ vraw = None /\ vbytes = None
    /\ vbytes' = Some(encode_compact_u16(vu))
    /\ UNCHANGED <<vu, vval, vraw, vrawval, main_vars, codec_vars, entry_vars>>

VDecode ==
    /\ vbytes # None /\ vval = None
    /\ vval' = Some(decode_compact_u16(vbytes[1], 1))
    /\ UNCHANGED <<vu, vbytes, vraw, vrawval, main_vars, codec_vars, entry_vars>>

VDecodeRaw ==
    /\ vraw # None /\ vrawval = None
    /\ vrawval' = Some(decode_compact_u16(vraw[1], 1))
    /\ UNCHANGED <<vu, vbytes, vval, vraw, main_vars, codec_vars, entry_vars>>

VarintNext == VEncode \/ VDecode \/ VDecodeRaw

SpecVarint == VarintInit /\ [][VarintNext]_vars

(***************************************************************************)
(* The wire codec and the signing engine applied to the inputs.            *)
(***************************************************************************)
\* Keys and signatures handed to sign.
SignKeys == {Key(1), Key(2)}
SignSigs == {Fill(SIGNATURE_BYTES, 1), GarbageSig}

CodecInit ==
    /\ cb \in CodecInputs /\ cn = 0 /\ cres = None /\ ctx = None /\ cenc = None /\ cre = None
    /\ cstage = "input" /\ cneed = << >> /\ csign = None /\ cext = None
    /\ MainIdle /\ VarintIdle /\ EntryIdle

\* decode of the first n bytes of the input.
CDecode ==
    /\ cstage = "input"
    /\ \E n \in 0..Len(cb) :
        LET r == decode(SubSeq(cb, 1, n)) IN
        /\ cn' = n
        /\ cres' = Some(r)
        /\ ctx' = IF r.kind = "Ok" THEN Some(r.val) ELSE None
    /\ cstage' = "decoded"
    /\ UNCHANGED <<cb, cenc, cre, cneed, csign, cext, main_vars, varint_vars, entry_vars>>

CSign ==
    /\ cstage = "decoded" /\ ctx # None /\ cext = None
    /\ \E pubkey \in SignKeys, signature \in SignSigs :
        /\ ctx' = Some(sign(ctx[1], pubkey, signature))
        /\ csign' = Some([pubkey |-> pubkey, signature |-> signature, before |-> ctx[1]])
    /\ cenc' = None /\ cre' = None /\ cneed' = << >>
    /\ UNCHANGED <<cb, cn, cres, cstage, cext, main_vars, varint_vars, entry_vars>>

CEncode ==
    /\ cstage = "decoded" /\ ctx # None /\ cenc = None /\ cneed = << >> /\ cext = None
    /\ cenc' = Some(encode(ctx[1]))
    /\ UNCHANGED <<cb, cn, cres, ctx, cre, cstage, cneed, csign, cext, main_vars, varint_vars, entry_vars>>

\* needed_signatures is called on the transaction, at most MaxCalls times in
\* a row.
CNeeded ==
    /\ cstage = "decoded" /\ ctx # None /\ cenc = None /\ cext = None
    /\ Len(cneed) < MaxCalls
    /\ cneed' = Append(cneed, needed_signatures(ctx[1]))
    /\ UNCHANGED <<cb, cn, cres, ctx, cenc, cre, cstage, csign, cext, main_vars, varint_vars, entry_vars>>

CRedecode ==
    /\ cenc # None /\ cenc[1].kind = "Ok" /\ cre = None
    /\ cre' = Some(decode(cenc[1].val))
    /\ UNCHANGED <<cb, cn, cres, ctx, cenc, cstage, cneed, csign, cext, main_vars, varint_vars, entry_vars>>

\* Bytes that follow in the reader: the next bytes of the input, or bytes
\* that are not part of the transaction.
Trailers == {<<255>>, <<0, 0, 0>>, GarbageSig}
Extensions(b, n) ==
    {SubSeq(b, n + 1, m) : m \in {n + 1, n + 2, Len(b)} \cap ((n + 1)..Len(b))}
        \cup Trailers

\* decode of the same bytes with more bytes after them, when decode of the
\* bytes alone was not Incomplete.
CExtend ==
    /\ cstage = "decoded" /\ cres[1].kind # "Incomplete"
    /\ cext = None /\ csign = None /\ cenc = None /\ cneed = << >>
    /\ \E more \in Extensions(cb, cn) :
          cext' = Some([more |-> more, res |-> decode(SubSeq(cb, 1, cn) \o more)])
    /\ UNCHANGED <<cb, cn, cres, ctx, cenc, cre, cstage, cneed, csign, main_vars,
                   varint_vars, entry_vars>>

CodecNext == CDecode \/ CSign \/ CEncode \/ CRedecode \/ CNeeded \/ CExtend

SpecCodec == CodecInit /\ [][CodecNext]_vars

(***************************************************************************)
(* main's loop: read lines until a transaction decodes, sign it with the   *)
(* keyring, print the outcome (lines 912-1045).  When a challenge password *)
(* is set, it is asked for before the sign pass.  A partially signed       *)
(* transaction that was printed can be handed to a second run of the       *)
(* program, which holds the keyring others.                                *)
(***************************************************************************)
\* Bytes of one printed line: print_base64 breaks the text every 72
\* characters, which are 54 bytes.
LINE_BYTES == 54

Keyring(S) == {Base58(Key(k)) : k \in S}

\* Keyrings: both small keys, the odd keys, the even keys.
KeySets ==
    {{1, 2},
     {k \in 1..(MAXIMUM_ED25519_SIGNATURES_COUNT + 1) : k % 2 = 1},
     {k \in 1..(MAXIMUM_ED25519_SIGNATURES_COUNT + 1) : k % 2 = 0}}

Keyrings == {Keyring(S) : S \in KeySets}

MainInputs == SigInputs \cup BigInputs \cup HeaderInputs \cup TwoInsInputs

Report(kind, unsigned, encoded_tx, signature) ==
    [kind |-> kind, unsigned |-> unsigned, encoded_tx |-> encoded_tx, signature |-> signature]

NoReport == Report("none", << >>, << >>, None)

\* Lines 980-992: every needed public key signs if the keyring has it, and
\* is listed (as text) otherwise.  The value is <<transaction, unsigned>>.
RECURSIVE sign_pass(_, _, _, _, _)
sign_pass(tx, needed, keyring, m, unsigned) ==
    IF needed = << >> THEN <<tx, unsigned>>
    ELSE IF Base58(Head(needed)) \in keyring
    THEN sign_pass(sign(tx, Head(needed), keypair_sign(Head(needed), m)),
                   Tail(needed), keyring, m, unsigned)
    ELSE sign_pass(tx, Tail(needed), keyring, m, Append(unsigned, Base58(Head(needed))))

\* Lines 995-1018: what is printed after the sign pass.
output(tx, unsigned, enc) ==
    IF enc.kind # "Ok" THEN Report("encode_error", unsigned, << >>, None)
    ELSE IF unsigned = << >>
    THEN IF is_some(tx.signed_read_write_addresses[1].signature)
         THEN Report("complete", unsigned, enc.val,
                     tx.signed_read_write_addresses[1].signature)
         ELSE Report("silent", unsigned, enc.val, None)
    ELSE Report("partial", unsigned, enc.val, None)

\* The challenge password entered at start-up (lines 898-910): none, or one.
Passwords == {"", "pw"}
\* What is typed at the challenge prompt.
PasswordAttempts == {"pw", "pW", ""}

\* A mutant of challenge_passed: any non-empty attempt passes.
challenge_passed_non_empty(attempt, pw) == attempt # ""

\* Line 964: password_attempt == password
challenge_passed(attempt, pw) == attempt = pw

\* Line 969: the attempt just failed was the last one.
last_attempt(n) == n = 4

\* Transactions typed at a program that has a challenge password set: two
\* that decode, without and with a signature, and one that is rejected.
ChallengeInputs ==
    {Canon(2, 1, 0, 0, <<1, 2>>, sp, 9, 0, << >>) : sp \in {<< >>, <<"G">>}}
        \cup {Canon(1, 1, 0, 0, <<1>>, << >>, 9, 0, << >>)}

MainInit ==
    /\ password \in Passwords
    /\ input \in (IF password = "" THEN MainInputs ELSE ChallengeInputs) /\ got = 0
    /\ keys \in Keyrings /\ others \in Keyrings
    /\ round = 1 /\ tx_in = None /\ msg = None /\ decoded_tx = None
    /\ report = NoReport /\ first_tx = None /\ pc = "read"
    /\ attempts = 0 /\ password_attempt = None /\ prompts = 0
    /\ CodecIdle /\ VarintIdle /\ EntryIdle

\* Lines 978-1020 for a decoded transaction tx0 with message bytes m.
Emit(tx0, m, sp) ==
    /\ tx_in' = Some(tx0)
    /\ msg' = Some(m)
    /\ decoded_tx' = Some(sp[1])
    /\ report' = output(sp[1], sp[2], encode(sp[1]))
    /\ first_tx' = IF round = 1 THEN Some(tx0) ELSE first_tx
    /\ pc' = "read"

\* Lines 943-976 for a decoded transaction tx0: its message; then, with a
\* challenge password set, the challenge loop is entered, and without one
\* the transaction is signed at once.
SignCycle(tx0, m) ==
    IF m.kind # "Ok"
    THEN /\ pc' = "exit"
         /\ report' = Report("message_error", << >>, << >>, None)
         /\ UNCHANGED <<tx_in, msg, decoded_tx, first_tx>>
    ELSE IF Len(password) > 0
    THEN /\ pc' = "challenge"
         /\ tx_in' = Some(tx0)
         /\ msg' = Some(m.val)
         /\ first_tx' = IF round = 1 THEN Some(tx0) ELSE first_tx
         /\ UNCHANGED <<decoded_tx, report>>
    ELSE Emit(tx0, m.val, sign_pass(tx0, needed_signatures(tx0), keys, m.val, << >>))

Decoded(r) ==
    IF r.kind = "Incomplete"
    THEN UNCHANGED <<tx_in, msg, decoded_tx, report, first_tx, pc>>
    ELSE IF r.kind = "Fatal"
    THEN /\ report' = Report("rejected", << >>, << >>, None)
         /\ UNCHANGED <<tx_in, msg, decoded_tx, first_tx, pc>>
    ELSE SignCycle(r.val, message(r.val))

\* One line of the transaction is read and appended to the buffer, and the
\* buffer is decoded (lines 917-1038).
ReadLine ==
    /\ pc = "read" /\ report.kind = "none" /\ got < Len(input)
    /\ got' = IF got + LINE_BYTES < Len(input) THEN got + LINE_BYTES ELSE Len(input)
    /\ Decoded(decode(SubSeq(input, 1, got')))
    /\ UNCHANGED <<input, keys, others, round, challenge_vars, codec_vars, varint_vars, entry_vars>>

\* One answer to the challenge prompt (lines 953-975): the right password
\* lets the sign pass and the output happen, the fifth wrong one ends the
\* program.
Challenge ==
    /\ pc = "challenge"
    /\ \E typed \in PasswordAttempts :
        /\ password_attempt' = Some(typed)
        /\ prompts' = prompts + 1
        /\ IF challenge_passed(typed, password)
           THEN /\ Emit(tx_in[1], msg[1],
                        sign_pass(tx_in[1], needed_signatures(tx_in[1]), keys, msg[1], << >>))
                /\ UNCHANGED attempts
           ELSE IF last_attempt(attempts)
           THEN /\ pc' = "exit"
                /\ report' = Report("challenge_failed", << >>, << >>, None)
                /\ UNCHANGED <<attempts, tx_in, msg, decoded_tx, first_tx>>
           ELSE /\ attempts' = attempts + 1
                /\ UNCHANGED <<tx_in, msg, decoded_tx, report, first_tx, pc>>
    /\ UNCHANGED <<input, got, keys, others, round, password, codec_vars, varint_vars, entry_vars>>

\* The challenge prompt fails (end of input): the program exits (lines 959-962).
ChallengeEof ==
    /\ pc = "challenge"
    /\ pc' = "exit"
    /\ UNCHANGED <<input, got, keys, others, round, tx_in, msg, decoded_tx, report,
                   first_tx, challenge_vars, codec_vars, varint_vars, entry_vars>>

\* End of input on stdin: the program exits (lines 924-927).
Eof ==
    /\ pc = "read"
    /\ pc' = "exit"
    /\ UNCHANGED <<input, got, keys, others, round, tx_in, msg, decoded_tx, report,
                   first_tx, challenge_vars, codec_vars, varint_vars, entry_vars>>

\* The partially signed transaction that was printed is given to the
\* program of the other party.
HandOff ==
    /\ pc = "read" /\ report.kind = "partial" /\ round < MaxRounds
    /\ input' = report.encoded_tx /\ got' = 0
    /\ keys' = others /\ others' = keys
    /\ round' = round + 1
    /\ tx_in' = None /\ msg' = None /\ decoded_tx' = None /\ report' = NoReport
    /\ attempts' = 0 /\ password_attempt' = None /\ prompts' = 0
    /\ UNCHANGED <<first_tx, pc, password, codec_vars, varint_vars, entry_vars>>

Next == ReadLine \/ Challenge \/ ChallengeEof \/ Eof \/ HandOff

Spec == MainInit /\ [][Next]_vars

(***************************************************************************)
(* Key entry (lines 776-893): for every mnemonic and passphrase entered,   *)
(* candidate keypairs are derived and listed, and the one selected is      *)
(* added to the keyring.  The derivation functions of the libraries are    *)
(* abstracted to injective functions of the seed and the path.             *)
(***************************************************************************)
\* Mnemonics entered at most.
MaxMnemonics == 2
\* The largest number typed at the selection prompt.
MaxSelection == 11

Mnemonics == {1, 2}
Passphrases == {0, 1}

\* generate_seed_from_seed_phrase_and_passphrase
generate_seed_from_seed_phrase_and_passphrase(mnemonic, passphrase) ==
    2 * (mnemonic - 1) + passphrase

\* keypair_from_seed: the public key of the keypair.
keypair_from_seed(seed) == Key(1 + 16 * seed)

\* keypair_from_seed_and_derivation_path for the path m/44'/501'/0'/i'.
keypair_from_seed_and_derivation_path(seed, path) == Key(2 + 16 * seed + path[4])

\* The values of i of the loop of line 824: for i in 0..9.
derivation_indices == 0..(9 - 1)

\* Lines 814-838: the root keypair, then one keypair per derivation index.
derive_keypairs(seed) ==
    << << << >>, keypair_from_seed(seed) >> >>
        \o [n \in 1..Cardinality(derivation_indices) |->
               << <<44, 501, 0, n - 1>>,
                  keypair_from_seed_and_derivation_path(seed, <<44, 501, 0, n - 1>>) >>]

\* Vec::remove
Remove(v, index) == SubSeq(v, 1, index) \o SubSeq(v, index + 2, Len(v))

\* What is typed at the selection prompt: ENTER, a number, other text.
SelectionLines ==
    {<<"enter">>, <<"text">>} \cup {<<"number", n>> : n \in 0..MaxSelection}

EntryInit ==
    /\ keypairs = << >> /\ keys_in_order = << >> /\ mnemonics = 0 /\ kpc = "mnemonic"
    /\ MainIdle /\ CodecIdle /\ VarintIdle

\* A mnemonic and a passphrase are entered (lines 789-838).
EnterMnemonic ==
    /\ kpc = "mnemonic" /\ mnemonics < MaxMnemonics
    /\ \E mnemonic \in Mnemonics, passphrase \in Passphrases :
          keypairs' = derive_keypairs(
                          generate_seed_from_seed_phrase_and_passphrase(mnemonic, passphrase))
    /\ mnemonics' = mnemonics + 1
    /\ kpc' = "select"
    /\ UNCHANGED <<keys_in_order, main_vars, codec_vars, varint_vars>>

\* ENTER at the mnemonic prompt ends key entry (lines 796-798); without any
\* key the program exits (lines 890-893).
NoMoreMnemonics ==
    /\ kpc = "mnemonic"
    /\ kpc' = IF Len(keys_in_order) = 0 THEN "exit" ELSE "password"
    /\ UNCHANGED <<keypairs, keys_in_order, mnemonics, main_vars, codec_vars, varint_vars>>

\* A line is typed at the selection prompt (lines 840-884).
Select ==
    /\ kpc = "select"
    /\ \E line \in SelectionLines :
          IF line[1] = "enter"
          THEN /\ kpc' = "mnemonic"
               /\ UNCHANGED <<keypairs, keys_in_order>>
          ELSE IF line[1] = "number" /\ line[2] < Len(keypairs)
          THEN LET public_key == Base58(keypairs[line[2] + 1][2]) IN
               /\ keypairs' = Remove(keypairs, line[2])
               /\ keys_in_order' =
                      IF public_key \in Range(keys_in_order) THEN keys_in_order
                      ELSE Append(keys_in_order, public_key)
               /\ kpc' = "mnemonic"
          ELSE UNCHANGED <<keypairs, keys_in_order, kpc>>
    /\ UNCHANGED <<mnemonics, main_vars, codec_vars, varint_vars>>

\* A prompt fails or standard input ends: the program exits (lines 791-794,
\* 804-807, 853-860).
EntryEof ==
    /\ kpc \in {"mnemonic", "select"}
    /\ kpc' = "exit"
    /\ UNCHANGED <<keypairs, keys_in_order, mnemonics, main_vars, codec_vars, varint_vars>>

EntryNext == EnterMnemonic \/ NoMoreMnemonics \/ Select \/ EntryEof

SpecEntry == EntryInit /\ [][EntryNext]_vars

\* C16: for each mnemonic and passphrase the root keypair and one derived
\* keypair for each of the ten paths m/44'/501'/0'/0' to m/44'/501'/0'/9' are
\* offered and can be selected.
CX_C16_TenDerivedPaths ==
    (kpc = "select" /\ keypairs # << >>) =>
        /\ keypairs[1][1] = << >>
        /\ \A i \in 0..9 :
              \E n \in 1..Len(keypairs) : keypairs[n][1] = <<44, 501, 0, i>>

(***************************************************************************)
(* Properties of the varint codec (SpecVarint).                            *)
(***************************************************************************)
\* C10: for every n in 0..=16383, decode_compact_u16(encode_compact_u16(n))
\* is n (and consumes every byte written), and encode_compact_u16(n) writes
\* exactly 1 byte when n < 128 and exactly 2 bytes when 128 <= n < 16384.
Thm_C10_VarintRoundTrip ==
    vu <= 16383 =>
        /\ vbytes # None =>
              Len(vbytes[1]) = (IF vu < 128 THEN 1 ELSE 2)
        /\ vval # None =>
              /\ vval[1].kind = "Ok"
              /\ vval[1].val = vu
              /\ vval[1].next = Len(vbytes[1]) + 1

\* A two-byte encoding has been written and decoded.
Wit_C10_TwoByteDecoded ==
    vu = 16383 /\ vval # None /\ Len(vbytes[1]) = 2

\* C18: three bytes b0, b1 with the high bit set and any b2 decode, never
\* with an error, to (b0 & 0x7F) | ((b1 & 0x7F) << 7) | (b2 << 14) modulo
\* 2^16, which depends on b2 only through b2 modulo 4; the encoding of n in
\* 16384..=65535 has 3 bytes, the third being n >> 14, and decodes to n.
Thm_C18_ThreeByteVarints ==
    /\ vrawval # None =>
          /\ vrawval[1].kind = "Ok"
          /\ vrawval[1].next = 4
          /\ vrawval[1].val =
                ((vraw[1][1] - 128) + 128 * (vraw[1][2] - 128) + 16384 * vraw[1][3]) % 65536
          /\ vrawval[1].val =
                (vraw[1][1] - 128) + 128 * (vraw[1][2] - 128) + 16384 * (vraw[1][3] % 4)
          /\ vrawval[1].val =
                decode_compact_u16(<<vraw[1][1], vraw[1][2], vraw[1][3] % 4>>, 1).val
    /\ (vraw = None /\ vu >= 16384) =>
          /\ vbytes # None =>
                (Len(vbytes[1]) = 3 /\ vbytes[1][3] = vu \div 16384
                    /\ vbytes[1][1] >= 128 /\ vbytes[1][2] >= 128)
          /\ vval # None =>
                (vval[1].kind = "Ok" /\ vval[1].val = vu /\ vval[1].next = 4)

\* Three bytes whose third byte does not fit a u16 have been decoded.
Wit_C18_TruncatedThirdByte ==
    /\ vrawval # None /\ vraw[1][3] = 255
    /\ vrawval[1].kind = "Ok" /\ vrawval[1].val < 65536

(***************************************************************************)
(* Properties of the wire codec (SpecCodec).                               *)
(***************************************************************************)
\* The bytes of b that decode consumed after the signature count and the
\* signature slots, when decode stopped before position next.
MessagePortion(b, next) ==
    LET sc == decode_compact_u16(b, 1)
    IN  SubSeq(b, sc.next + SIGNATURE_BYTES * sc.val, next - 1)

\* C1: for every byte string that decode accepts, message of the decoded
\* transaction is byte for byte the message portion of the input.
CX_C1_MessageIsInputPortion ==
    (cres # None /\ cres[1].kind = "Ok") =>
        /\ message(cres[1].val).kind = "Ok"
        /\ message(cres[1].val).val = MessagePortion(SubSeq(cb, 1, cn), cres[1].next)

\* C2: for every decoded transaction, before or after any sign calls, encode
\* succeeds and decoding its output gives the same transaction again.
CX_C2_EncodeDecodeRoundTrip ==
    /\ cenc # None => cenc[1].kind = "Ok"
    /\ cre # None => (cre[1].kind = "Ok" /\ cre[1].val = ctx[1])

\* C3: the message bytes do not depend on signature values: after any
\* sequence of sign calls they are those of the transaction as decoded.
Thm_C3_MessageIgnoresSignatures ==
    ctx # None => message(ctx[1]) = message(cres[1].val)

\* sign has changed a signature of a decoded transaction.
Wit_C3_SignatureChanged ==
    /\ ctx # None /\ ctx[1] # cres[1].val
    /\ message(ctx[1]).kind = "Ok"

\* C8: if decode accepts the input and consumes its first L bytes, decode of
\* every prefix shorter than L is Incomplete.
Thm_C8_ShortReadIncomplete ==
    (cres # None /\ decode(cb).kind = "Ok" /\ cn < decode(cb).next - 1) =>
        cres[1] = Incomplete

\* A prefix that ends one byte before the end of an instruction's data.
Wit_C8_CutInInstruction ==
    /\ cres # None /\ decode(cb).kind = "Ok" /\ cn = decode(cb).next - 2
    /\ decode(cb).val.instructions # << >>
    /\ cres[1] = Incomplete

\* The header of b is read in full and is one that decode must reject.
HeaderRejected(b) ==
    LET sc == decode_compact_u16(b, 1) IN
    /\ sc.kind = "Ok"
    /\ \/ sc.val > 18
       \/ LET p == sc.next + SIGNATURE_BYTES * sc.val IN
          /\ Len(b) >= p + 2
          /\ LET ts == b[p]
                 ro == b[p + 1]
                 uro == b[p + 2]
                 ac == decode_compact_u16(b, p + 3)
             IN  \/ ts > 37
                 \/ sc.val > ts
                 \/ ro > ts
                 \/ ts - ro = 0
                 \/ (ac.kind = "Ok" /\ ac.val < ts + uro)

\* C9: decode returns a Fatal error for every input whose header has a
\* signature count > 18, a total signed count > 37, more signatures or more
\* signed read-only addresses than signed addresses, no signed-writable
\* address, or fewer addresses than signed plus unsigned read-only ones.
Thm_C9_HeaderValidation ==
    (cres # None /\ HeaderRejected(SubSeq(cb, 1, cn))) => cres[1].kind = "Fatal"

\* Two signatures for one signed address: rejected.
Wit_C9_MoreSignaturesThanSigned ==
    /\ cres # None /\ cn = Len(cb) /\ cb[1] = 2
    /\ cb[2 + 2 * SIGNATURE_BYTES] = 1
    /\ cres[1].kind = "Fatal"

\* C11: every transaction that decode returns has at most 37 addresses in
\* its four partitions together, also after any sequence of sign calls.
CX_C11_AddressCountBound ==
    ctx # None =>
        Len(ctx[1].signed_read_write_addresses) + Len(ctx[1].signed_read_only_addresses)
            + Len(ctx[1].unsigned_read_write_addresses)
            + Len(ctx[1].unsigned_read_only_addresses) <= 37

\* The position in b of its first instruction, or 0 when b ends before it.
FirstIns(b) ==
    LET sc == decode_compact_u16(b, 1) IN
    IF sc.kind # "Ok" THEN 0 ELSE
    LET h == sc.next + SIGNATURE_BYTES * sc.val IN
    IF h + 2 > Len(b) THEN 0 ELSE
    LET ac == decode_compact_u16(b, h + 3) IN
    IF ac.kind # "Ok" THEN 0 ELSE
    LET ic == decode_compact_u16(b, ac.next + ADDRESS_BYTES * (ac.val + 1)) IN
    IF ic.kind # "Ok" THEN 0 ELSE ic.next

\* The number of instructions b announces (b reaches its first instruction).
InsCount(b) ==
    LET sc == decode_compact_u16(b, 1)
        ac == decode_compact_u16(b, sc.next + SIGNATURE_BYTES * sc.val + 3)
    IN  decode_compact_u16(b, ac.next + ADDRESS_BYTES * (ac.val + 1)).val

\* The position of the instruction k places after the one at p, or 0 when an
\* instruction before it is cut short or has a count above its limit.
RECURSIVE InsWalk(_, _, _)
InsWalk(b, p, k) ==
    IF p = 0 \/ k = 0 THEN p ELSE
    LET n == decode_compact_u16(b, p + 1) IN
    IF n.kind # "Ok" \/ (n.kind = "Ok" /\ n.val > 1190) THEN 0 ELSE
    LET d == decode_compact_u16(b, n.next + n.val) IN
    IF d.kind # "Ok" \/ (d.kind = "Ok" /\ (d.val > 1192 \/ d.next + d.val > Len(b) + 1))
    THEN 0 ELSE InsWalk(b, d.next + d.val, k - 1)

\* The positions of the index bytes of the instruction at p that b holds:
\* <<j, q>> with j = 0 for the program index and j >= 1 for the j-th address.
IndexBytes(b, p) ==
    IF p = 0 \/ p > Len(b) THEN {} ELSE
    LET n == decode_compact_u16(b, p + 1) IN
    {<<0, p>>} \cup
        (IF n.kind # "Ok" \/ (n.kind = "Ok" /\ n.val > 1190) THEN {}
         ELSE {<<j, n.next + j - 1>> : j \in {i \in 1..n.val : n.next + i - 1 <= Len(b)}})

\* What index i of b's address table stands for: the i-th address read from
\* b, signed when i is below the header's signed count, writable when i is
\* below the signed-writable count or among the unsigned ones before the
\* last unsigned-read-only-count addresses.
Resolved(b, i) ==
    LET sc == decode_compact_u16(b, 1)
        h == sc.next + SIGNATURE_BYTES * sc.val
        ac == decode_compact_u16(b, h + 3)
    IN  <<SubSeq(b, ac.next + ADDRESS_BYTES * i, ac.next + ADDRESS_BYTES * (i + 1) - 1),
          i < b[h],
          i < b[h] - b[h + 1] \/ (i >= b[h] /\ i < ac.val - b[h + 2])>>

\* The number of addresses b announces.
TotalAddresses(b) ==
    LET sc == decode_compact_u16(b, 1)
    IN  decode_compact_u16(b, sc.next + SIGNATURE_BYTES * sc.val + 3).val

\* The index bytes of b that are out of range: <<k, j, q>> for instruction k.
Offending(b) ==
    IF FirstIns(b) = 0 THEN {} ELSE
    UNION {{<<k, jq[1], jq[2]>> : jq \in {x \in IndexBytes(b, InsWalk(b, FirstIns(b), k)) :
                                             b[x[2]] >= TotalAddresses(b)}} :
           k \in 0..(InsCount(b) - 1)}

\* The first of them in reading order.
FirstOffending(b) ==
    CHOOSE o \in Offending(b) :
        \A x \in Offending(b) : o[1] < x[1] \/ (o[1] = x[1] /\ o[2] <= x[2])

\* C12: an index i read in an instruction resolves to the address at position
\* i of the four partitions in wire order, with the flags of the partition
\* that position falls in; an index not below the address count makes decode
\* return a Fatal error naming the index and the zero-based position of the
\* instruction; every address of every instruction of a decoded transaction
\* is in one of its partitions.
Thm_C12_IndexResolution ==
    /\ (cres # None /\ cres[1].kind = "Ok") =>
          LET b == SubSeq(cb, 1, cn)
              tx == cres[1].val
          IN  /\ Len(tx.instructions) = InsCount(b)
              /\ \A k \in 1..Len(tx.instructions) :
                    LET p == InsWalk(b, FirstIns(b), k - 1)
                        n == decode_compact_u16(b, p + 1)
                    IN  /\ b[p] < TotalAddresses(b)
                        /\ tx.instructions[k].program_address = Resolved(b, b[p])[1]
                        /\ Len(tx.instructions[k].addresses) = n.val
                        /\ \A j \in 1..n.val :
                              /\ b[n.next + j - 1] < TotalAddresses(b)
                              /\ tx.instructions[k].addresses[j]
                                    = Resolved(b, b[n.next + j - 1])
    /\ (cres # None /\ decode_header(SubSeq(cb, 1, cn)).kind = "Ok"
            /\ Offending(SubSeq(cb, 1, cn)) # {}) =>
          LET o == FirstOffending(SubSeq(cb, 1, cn)) IN
          /\ cres[1].kind = "Fatal"
          /\ cres[1].msg[2] = cb[o[3]]
          /\ cres[1].msg[3] = o[1]
    /\ ctx # None =>
          \A k \in 1..Len(ctx[1].instructions) :
              /\ ctx[1].instructions[k].program_address \in Range(AddressTable(ctx[1]))
              /\ \A j \in 1..Len(ctx[1].instructions[k].addresses) :
                    ctx[1].instructions[k].addresses[j][1] \in Range(AddressTable(ctx[1]))

\* An instruction of a decoded transaction refers to an address of each of
\* the four partitions.
Wit_C12_AllFourPartitions ==
    /\ cres # None /\ cres[1].kind = "Ok"
    /\ \E k \in 1..Len(cres[1].val.instructions) :
          {<<a[2], a[3]>> : a \in Range(cres[1].val.instructions[k].addresses)}
              = BOOLEAN \X BOOLEAN

\* C13: for every transaction that decode returns, before or after any
\* sequence of sign calls, message and encode both return Ok.
Thm_C13_EncodeNeverFails ==
    /\ ctx # None => (message(ctx[1]).kind = "Ok" /\ encode(ctx[1]).kind = "Ok")
    /\ cenc # None => cenc[1].kind = "Ok"

\* A transaction whose instruction has as many data bytes as are allowed
\* has been signed and encoded.
Wit_C13_EncodedAtDataLimit ==
    /\ cenc # None /\ cenc[1].kind = "Ok"
    /\ ctx[1] # cres[1].val
    /\ \E k \in 1..Len(ctx[1].instructions) :
          Len(ctx[1].instructions[k].data) = MAXIMUM_INSTRUCTION_DATA_COUNT

\* The public keys of the signing slots of tx that hold no signature.
UnsignedKeys(tx) ==
    {SigningSlots(tx)[i].pubkey :
        i \in {k \in 1..Len(SigningSlots(tx)) : ~is_some(SigningSlots(tx)[k].signature)}}

\* C14: needed_signatures returns exactly the public keys that occupy a
\* signing slot without a signature, each once, in ascending order of their
\* base58 text; the call leaves the transaction as it is, and a second call
\* on the unchanged transaction returns the same sequence.
Thm_C14_NeededSignatures ==
    /\ [](cneed # << >> =>
            LET text == [i \in 1..Len(cneed[1]) |-> Base58(cneed[1][i])] IN
            /\ Range(cneed[1]) = UnsignedKeys(ctx[1])
            /\ \A i, j \in 1..Len(cneed[1]) : i < j => StrLess(text[i], text[j])
            /\ \A c \in 1..Len(cneed) : cneed[c] = cneed[1])
    /\ [][Len(cneed') > Len(cneed) => ctx' = ctx]_vars

\* Two calls on a transaction whose unsigned slots hold two keys, the first
\* slot's key not being the first in text order and occupying two slots.
Wit_C14_SortedAndDeduplicated ==
    /\ Len(cneed) = 2 /\ Len(cneed[1]) = 2
    /\ cneed[1][1] # SigningSlots(ctx[1])[1].pubkey
    /\ \E i, j \in 1..Len(SigningSlots(ctx[1])) :
          /\ i < j
          /\ SigningSlots(ctx[1])[i].pubkey = SigningSlots(ctx[1])[j].pubkey
          /\ ~is_some(SigningSlots(ctx[1])[i].signature)
          /\ ~is_some(SigningSlots(ctx[1])[j].signature)

\* Slots after are slots before with signature in every slot of pubkey.
SignedOver(before, after, pubkey, signature) ==
    /\ Len(after) = Len(before)
    /\ \A i \in 1..Len(before) :
          /\ after[i].pubkey = before[i].pubkey
          /\ after[i].signature =
                IF before[i].pubkey = pubkey THEN Some(signature) ELSE before[i].signature

\* C17: after sign(tx, pubkey, signature) every signing slot whose public
\* key is pubkey holds the signature, whatever it held before; every other
\* slot's signature, the order and contents of the four partitions, the
\* blockhash and the instructions are as before; with no matching slot the
\* transaction is unchanged.
Thm_C17_SignEffectAndFrame ==
    csign # None =>
        LET before == csign[1].before
            after == ctx[1]
        IN  /\ SignedOver(before.signed_read_write_addresses,
                          after.signed_read_write_addresses,
                          csign[1].pubkey, csign[1].signature)
            /\ SignedOver(before.signed_read_only_addresses,
                          after.signed_read_only_addresses,
                          csign[1].pubkey, csign[1].signature)
            /\ after.unsigned_read_write_addresses = before.unsigned_read_write_addresses
            /\ after.unsigned_read_only_addresses = before.unsigned_read_only_addresses
            /\ after.recent_blockhash = before.recent_blockhash
            /\ after.instructions = before.instructions
            /\ (\A i \in 1..Len(SigningSlots(before)) :
                    SigningSlots(before)[i].pubkey # csign[1].pubkey) => after = before

\* A sign call filled two slots of its key, one in each signed partition,
\* replaced the signature one of them held, and left the signature of
\* another key's slot in place.
Wit_C17_TwoSlotsOneReplaced ==
    /\ csign # None
    /\ \E i \in 1..Len(csign[1].before.signed_read_write_addresses),
           j \in 1..Len(csign[1].before.signed_read_only_addresses) :
          /\ csign[1].before.signed_read_write_addresses[i].pubkey = csign[1].pubkey
          /\ csign[1].before.signed_read_only_addresses[j].pubkey = csign[1].pubkey
          /\ is_some(csign[1].before.signed_read_only_addresses[j].signature)
          /\ csign[1].before.signed_read_only_addresses[j].signature
                # Some(csign[1].signature)
          /\ ctx[1].signed_read_only_addresses[j].signature = Some(csign[1].signature)
    /\ \E i \in 1..Len(SigningSlots(ctx[1])) :
          /\ SigningSlots(ctx[1])[i].pubkey # csign[1].pubkey
          /\ is_some(SigningSlots(ctx[1])[i].signature)

\* The j-th 64-byte signature slot of wire bytes b (from 1).
WireSig(b, j) ==
    LET sc == decode_compact_u16(b, 1)
    IN  SubSeq(b, sc.next + SIGNATURE_BYTES * (j - 1), sc.next + SIGNATURE_BYTES * j - 1)

\* C19: when the input carries k signatures, decode gives the j-th signing
\* slot (signed-writable first, then signed-read-only) the j-th signature
\* for j <= k, absent when it is all zero, and no signature for j > k;
\* encode writes one 64-byte signature slot per signing slot, all zero for
\* an absent one, followed by the message, however many the input carried.
Thm_C19_SignaturePairing ==
    /\ (cres # None /\ cres[1].kind = "Ok") =>
          LET b == SubSeq(cb, 1, cn)
              k == decode_compact_u16(b, 1).val
              slots == SigningSlots(cres[1].val)
          IN  /\ k <= Len(slots)
              /\ Len(slots) = b[decode_compact_u16(b, 1).next + SIGNATURE_BYTES * k]
              /\ \A j \in 1..Len(slots) :
                    /\ slots[j].pubkey = Resolved(b, j - 1)[1]
                    /\ slots[j].signature =
                          IF j <= k /\ WireSig(b, j) # Zeros(64)
                          THEN Some(WireSig(b, j)) ELSE None
    /\ (cenc # None /\ cenc[1].kind = "Ok") =>
          LET e == cenc[1].val
              sc == decode_compact_u16(e, 1)
              slots == SigningSlots(ctx[1])
          IN  /\ sc.val = Len(slots)
              /\ Len(e) = sc.next - 1 + SIGNATURE_BYTES * Len(slots) + Len(message(ctx[1]).val)
              /\ \A j \in 1..Len(slots) :
                    WireSig(e, j) = IF is_some(slots[j].signature)
                                    THEN slots[j].signature[1] ELSE Zeros(64)
              /\ SubSeq(e, sc.next + SIGNATURE_BYTES * Len(slots), Len(e))
                    = message(ctx[1]).val

\* An input with one signature for two signing slots has been decoded and,
\* as decoded, encoded with two signature slots.
Wit_C19_ShortSignatureList ==
    /\ cres # None /\ cres[1].kind = "Ok" /\ cb[1] = 1
    /\ Len(SigningSlots(cres[1].val)) = 2
    /\ is_some(SigningSlots(cres[1].val)[1].signature)
    /\ ~is_some(SigningSlots(cres[1].val)[2].signature)
    /\ ctx[1] = cres[1].val
    /\ cenc # None /\ cenc[1].kind = "Ok" /\ cenc[1].val[1] = 2

\* C20: when decode of a byte string returns Ok or a Fatal error, decode of
\* that byte string followed by any further bytes returns the same
\* transaction, consuming the same bytes, or the same Fatal error.
Thm_C20_StableUnderAppend ==
    cext # None =>
        /\ cres[1].kind \in {"Ok", "Fatal"}
        /\ cext[1].res = cres[1]

\* A transaction with an instruction was decoded, and decoded again with a
\* signature's worth of other bytes after it.
Wit_C20_TrailingBytesIgnored ==
    /\ cext # None /\ cres[1].kind = "Ok" /\ cn = Len(cb)
    /\ cext[1].more = GarbageSig
    /\ cext[1].res.kind = "Ok"
    /\ cext[1].res.val.instructions # << >>

(***************************************************************************)
(* Properties of the sign cycle (Spec).                                    *)
(***************************************************************************)
AllSigned(tx) ==
    \A i \in 1..Len(SigningSlots(tx)) : is_some(SigningSlots(tx)[i].signature)

SlotKeyTexts(tx) == {Base58(SigningSlots(tx)[i].pubkey) : i \in 1..Len(SigningSlots(tx))}

Texts(pubkeys) == [i \in 1..Len(pubkeys) |-> Base58(pubkeys[i])]

\* The i-th 64-byte signature slot of an encoded transaction with fewer than
\* 128 signing slots.
OutSig(encoded_tx, i) ==
    SubSeq(encoded_tx, 2 + SIGNATURE_BYTES * (i - 1), 1 + SIGNATURE_BYTES * i)

\* The transaction the first party decoded carries no signature, every key of
\* its signing slots is held by exactly one of the two parties, and the
\* second party holds at least one of them.
SplitBetween(first, second) ==
    /\ first_tx # None
    /\ \A i \in 1..Len(SigningSlots(first_tx[1])) :
          ~is_some(SigningSlots(first_tx[1])[i].signature)
    /\ SlotKeyTexts(first_tx[1]) \subseteq (first \cup second)
    /\ SlotKeyTexts(first_tx[1]) \cap first \cap second = {}
    /\ SlotKeyTexts(first_tx[1]) \cap second # {}

\* C4: when the keys of an unsigned transaction are split between two
\* parties, the first party's cycle reports it incomplete with exactly the
\* second party's keys outstanding, and the second party's cycle on the first
\* party's output reports it complete: decoding the final output shows every
\* signing slot signed and needed_signatures empty.
CX_C4_HandOffCompletes ==
    /\ (round = 1 /\ report.kind # "none" /\ SplitBetween(keys, others)) =>
          /\ report.kind = "partial"
          /\ Range(report.unsigned) = SlotKeyTexts(first_tx[1]) \cap others
    /\ (round = 2 /\ report.kind # "none" /\ SplitBetween(others, keys)) =>
          /\ report.kind = "complete"
          /\ decode(report.encoded_tx).kind = "Ok"
          /\ AllSigned(decode(report.encoded_tx).val)
          /\ needed_signatures(decode(report.encoded_tx).val) = << >>

\* C5: the transaction is reported complete iff needed_signatures is empty
\* after the sign pass, iff every signing slot holds a signature; when it is
\* reported complete the fee payer's slot holds a signature, the one emitted.
Thm_C5_CompletionRule ==
    decoded_tx # None =>
        /\ (report.kind = "complete") <=> (needed_signatures(decoded_tx[1]) = << >>)
        /\ (needed_signatures(decoded_tx[1]) = << >>) <=> AllSigned(decoded_tx[1])
        /\ report.kind = "complete" =>
              /\ is_some(decoded_tx[1].signed_read_write_addresses[1].signature)
              /\ report.signature = decoded_tx[1].signed_read_write_addresses[1].signature

\* A transaction that came in with a slot to sign is reported complete.
Wit_C5_CompletedBySigning ==
    /\ decoded_tx # None /\ report.kind = "complete"
    /\ ~AllSigned(tx_in[1])

\* C6: after the sign pass every signing slot whose public key is in the
\* keyring holds a signature, and the outstanding keys reported are the keys
\* that needed a signature before the pass and are not in the keyring, which
\* is what needed_signatures returns after the pass.
Thm_C6_SignPassOutcome ==
    decoded_tx # None =>
        /\ \A i \in 1..Len(SigningSlots(decoded_tx[1])) :
              Base58(SigningSlots(decoded_tx[1])[i].pubkey) \in keys
                  => is_some(SigningSlots(decoded_tx[1])[i].signature)
        /\ report.unsigned = Texts(needed_signatures(decoded_tx[1]))
        /\ Range(report.unsigned) = Range(Texts(needed_signatures(tx_in[1]))) \ keys

\* A pass that signed a slot and left another key outstanding.
Wit_C6_SignedAndOutstanding ==
    /\ decoded_tx # None /\ report.kind = "partial"
    /\ decoded_tx[1] # tx_in[1]

\* Slot i came in signed, and its key is signed for again in this pass: the
\* key also occupies a slot without a signature and the keyring holds it.
SignedAgain(i) ==
    /\ Base58(SigningSlots(tx_in[1])[i].pubkey) \in keys
    /\ \E j \in 1..Len(SigningSlots(tx_in[1])) :
          /\ SigningSlots(tx_in[1])[j].pubkey = SigningSlots(tx_in[1])[i].pubkey
          /\ ~is_some(SigningSlots(tx_in[1])[j].signature)

\* C7: every signing slot that carried a signature in the decoded input
\* carries that same signature in the re-encoded output, whatever the keyring.
CX_C7_SignaturesPreserved ==
    (decoded_tx # None /\ report.kind \in {"partial", "complete"}) =>
        \A i \in 1..Len(SigningSlots(tx_in[1])) :
            is_some(SigningSlots(tx_in[1])[i].signature) =>
                OutSig(report.encoded_tx, i) = SigningSlots(tx_in[1])[i].signature[1]

\* C7 as amended: such a slot carries the same signature in the output,
\* unless its key also occupies a slot without a signature and the keyring
\* holds the key; then it carries the keyring's signature of the message.
Thm_C7_SignaturesPreservedUnlessSignedAgain ==
    (decoded_tx # None /\ report.kind \in {"partial", "complete"}) =>
        \A i \in 1..Len(SigningSlots(tx_in[1])) :
            is_some(SigningSlots(tx_in[1])[i].signature) =>
                OutSig(report.encoded_tx, i) =
                    IF SignedAgain(i)
                    THEN keypair_sign(SigningSlots(tx_in[1])[i].pubkey, msg[1])
                    ELSE SigningSlots(tx_in[1])[i].signature[1]

\* Both cases have happened in one cycle's output: a signed slot whose key
\* is signed for again, with another signature than before, and a signed
\* slot that is kept.
Wit_C7_OverwrittenSlot ==
    /\ decoded_tx # None /\ report.kind \in {"partial", "complete"}
    /\ \E i \in 1..Len(SigningSlots(tx_in[1])) :
          /\ is_some(SigningSlots(tx_in[1])[i].signature)
          /\ SignedAgain(i)
          /\ SigningSlots(tx_in[1])[i].signature[1]
                # keypair_sign(SigningSlots(tx_in[1])[i].pubkey, msg[1])

\* C15: with a non-empty challenge password set, a decoded transaction is
\* not signed and nothing is emitted for it until exactly that password has
\* been typed; at most 5 attempts are asked for per transaction, and after
\* the 5th wrong one the program exits with nothing signed or emitted.
Thm_C15_ChallengeGate ==
    password # "" =>
        /\ (decoded_tx # None
                \/ report.kind \in {"complete", "partial", "silent", "encode_error"})
              => password_attempt = Some(password)
        /\ prompts <= 5
        /\ pc = "challenge" =>
              (decoded_tx = None /\ report.kind = "none" /\ prompts <= 4)
        /\ (prompts = 5 /\ password_attempt # Some(password)) =>
              (pc = "exit" /\ decoded_tx = None /\ report.kind = "challenge_failed")

\* A transaction is signed and reported complete on the fifth attempt,
\* after four wrong ones.
Wit_C15_PassedOnFifthAttempt ==
    /\ password # "" /\ prompts = 5 /\ attempts = 4
    /\ password_attempt = Some(password)
    /\ decoded_tx # None /\ decoded_tx[1] # tx_in[1]
    /\ report.kind = "complete"

====
